---- MODULE Spec2Model ----
(***************************************************************************)
(* Filter-list generator (Filters/parser.py).                              *)
(*                                                                         *)
(* A Python string is a sequence of one-character strings; indices in the  *)
(* string helpers are 0-based, as in Python.  The run is a state machine:  *)
(* the MAIN loop reads one template line per step, and the loops of        *)
(* save_url_rule and save_file_rule process one source line per step.      *)
(***************************************************************************)
EXTENDS Integers, Sequences, FiniteSets

VARIABLES
    exclusions,       \* global exclusions (line 8): list of strings
    processed_rules,  \* global processed_rules (line 5): set of strings
    f,                \* filter.txt: the strings written so far, one per writelines call
    pc,               \* "main" | "url" | "file" | "done" | "aborted" | "pure"
    n,                \* number of template lines read so far
    eof,              \* the template iterator is exhausted after the current line
    line,             \* the template line of the directive being handled
    target,           \* url / file_name computed from `line`
    k,                \* number of source lines of the current directive handled
    rule,             \* loop variable of save_url_rule / save_file_rule
    call,             \* history: write_rule call of the last step, <<>> or <<rule>>
    src,              \* history: for each entry of f its origin [kind, dir, idx]
    failedAt,         \* history: template line whose fetch / open raised, else 0
    fn,               \* function applied on its own (SpecPure), else "none"
    arg,              \* its argument
    res,              \* its result, when a string
    verdict           \* its result, when a boolean

vars == <<exclusions, processed_rules, f, pc, n, eof, line, target, k, rule, call,
          src, failedAt, fn, arg, res, verdict>>

pureVars == <<fn, arg, res, verdict>>
runVars  == <<exclusions, processed_rules, f, pc, n, eof, line, target, k, rule,
              call, src, failedAt>>

(***************************************************************************)
(* Bounds of the model.                                                    *)
(***************************************************************************)
MaxTemplateLines == 2
MaxSourceLines == 2
MaxRuleLen == 5
MaxPieces == 3

(***************************************************************************)
(* Python string primitives.                                               *)
(***************************************************************************)
NL == <<"\n">>

\* s[a:]
SliceFrom(s, a) == SubSeq(s, a + 1, Len(s))

\* s[:b]
SliceTo(s, b) == SubSeq(s, 1, b)

\* s.startswith(p)
StartsWith(s, p) == Len(p) <= Len(s) /\ SubSeq(s, 1, Len(p)) = p

\* sub occurs in s at 0-based offset i
MatchAt(s, sub, i) ==
    /\ i >= 0
    /\ i + Len(sub) <= Len(s)
    /\ SubSeq(s, i + 1, i + Len(sub)) = sub

\* s.find(sub, start): lowest offset >= start where sub occurs, else -1
RECURSIVE Find(_, _, _)
Find(s, sub, start) ==
    IF start + Len(sub) > Len(s) THEN -1
    ELSE IF MatchAt(s, sub, start) THEN start
    ELSE Find(s, sub, start + 1)

\* sub in s
Contains(s, sub) == Find(s, sub, 0) # -1

\* s.replace(old, ''): every non-overlapping occurrence, left to right
RECURSIVE Remove(_, _)
Remove(s, old) ==
    IF s = <<>> THEN <<>>
    ELSE IF MatchAt(s, old, 0) THEN Remove(SliceFrom(s, Len(old)), old)
    ELSE <<Head(s)>> \o Remove(Tail(s), old)

\* the characters str.strip() / str.rstrip() remove (vertical tab is outside
\* the alphabets used here)
Whitespace == {" ", "\t", "\n", "\r", "\f"}

\* s.rstrip()
RECURSIVE RStrip(_)
RStrip(s) ==
    IF s # <<>> /\ s[Len(s)] \in Whitespace THEN RStrip(SliceTo(s, Len(s) - 1))
    ELSE s

\* s.lstrip()
RECURSIVE LStrip(_)
LStrip(s) ==
    IF s # <<>> /\ Head(s) \in Whitespace THEN LStrip(Tail(s))
    ELSE s

\* s.strip()
Strip(s) == LStrip(RStrip(s))

\* s.split('\n')
RECURSIVE Split(_)
Split(s) ==
    LET i == Find(s, NL, 0) IN
    IF i = -1 THEN <<s>>
    ELSE <<SliceTo(s, i)>> \o Split(SliceFrom(s, i + 1))

\* iteration over a file object: the lines with their terminators
RECURSIVE ReadLines(_)
ReadLines(s) ==
    LET i == Find(s, NL, 0) IN
    IF s = <<>> THEN <<>>
    ELSE IF i = -1 THEN <<s>>
    ELSE <<SliceTo(s, i + 1)>> \o ReadLines(SliceFrom(s, i + 1))

\* concatenation of a sequence of strings
RECURSIVE Concat(_)
Concat(ss) == IF ss = <<>> THEN <<>> ELSE Head(ss) \o Concat(Tail(ss))

\* the sequences over S of length lo..hi
SeqsOf(S, lo, hi) == UNION {[1..m -> S] : m \in lo..hi}

(***************************************************************************)
(* The functions of parser.py.                                             *)
(***************************************************************************)
is_domain_rule(r) ==
    LET point_idx == Find(r, <<".">>, 0) IN
    IF point_idx = -1 THEN FALSE
    ELSE LET question_idx == Find(r, <<"?">>, point_idx)
             slash_idx == Find(r, <<"/">>, point_idx)
         IN  IF slash_idx = -1 /\ question_idx = -1 THEN TRUE
             ELSE LET replace_idx == IF slash_idx # -1 THEN slash_idx
                                     ELSE question_idx
                      tail == SliceFrom(r, replace_idx)
                  IN  Len(tail) <= 2

Digit == <<"0", "1", "2", "3", "4", "5", "6", "7", "8", "9">>
Pad2(x) == <<Digit[((x \div 10) % 10) + 1], Digit[(x % 10) + 1]>>
Pad4(x) == Pad2(x \div 100) \o Pad2(x % 100)

\* strftime("%Y-%m-%d %H:%M:%S") of a clock reading
strftime(t) ==
    Pad4(t.year) \o <<"-">> \o Pad2(t.month) \o <<"-">> \o Pad2(t.day) \o <<" ">>
    \o Pad2(t.hour) \o <<":">> \o Pad2(t.minute) \o <<":">> \o Pad2(t.second)

\* datetime.datetime.now(): the readings the clock may give
Clock ==
    { [year |-> 2016, month |-> 10, day |-> 5, hour |-> 9, minute |-> 30, second |-> 7],
      [year |-> 2017, month |-> 1, day |-> 31, hour |-> 23, minute |-> 5, second |-> 59] }

\* date_now(): the strings it may return
date_now == {strftime(t) : t \in Clock}

Placeholder == <<"%", "t", "i", "m", "e", "s", "t", "a", "m", "p", "%">>

\* variant of save_comment: only the placeholder is replaced, what follows it stays
save_comment_keep_suffix(comment, ts) ==
    LET idx == Find(comment, Placeholder, 0) IN
    IF idx # -1
    THEN SliceTo(comment, idx) \o ts \o SliceFrom(comment, idx + Len(Placeholder))
    ELSE comment

\* save_comment(comment, f) with date_now() returning ts: the string written
save_comment(comment, ts) ==
    LET idx == Find(comment, Placeholder, 0) IN
    IF idx # -1 THEN SliceTo(comment, idx) \o ts \o NL
    ELSE comment

\* exclusions_file / exclusions (lines 6-8) from the text of exclusions.txt
load_exclusions(text) ==
    LET exclusions_file == Split(text) IN
    SelectSeq(exclusions_file, LAMBDA l : ~StartsWith(l, <<"!">>))

\* variant of is_rule_not_exclusion: `return True` inside the loop, so that only
\* the first entry is looked at
is_rule_not_exclusion_first_entry(r, excl) ==
    excl = <<>> \/ ~(Contains(r, excl[1]) /\ excl[1] # <<>>)

\* is_rule_not_exclusion(r), given the global exclusions
is_rule_not_exclusion(r, excl) ==
    \A i \in DOMAIN excl : ~(Contains(r, excl[i]) /\ excl[i] # <<>>)

is_not_duplication(r, P) == r \notin P

\* variant of f.writelines(s): the string is put before what was written
writelines_at_front(file, s) == <<s>> \o file

\* f.writelines(s)
writelines(file, s) == Append(file, s)

\* variant of write_rule: is_not_duplication is not consulted
write_rule_no_duplication_check(r, file, P) ==
    IF is_domain_rule(r) \/ StartsWith(r, <<"!">>)
    THEN [f |-> writelines(file, r \o NL), processed_rules |-> P \cup {r}]
    ELSE [f |-> file, processed_rules |-> P]

\* variant of write_rule: the rule written is not added to processed_rules
write_rule_not_recorded(r, file, P) ==
    IF (is_domain_rule(r) /\ is_not_duplication(r, P)) \/ StartsWith(r, <<"!">>)
    THEN [f |-> writelines(file, r \o NL), processed_rules |-> P]
    ELSE [f |-> file, processed_rules |-> P]

\* write_rule(r, f): the file and processed_rules after the call
write_rule(r, file, P) ==
    IF (is_domain_rule(r) /\ is_not_duplication(r, P)) \/ StartsWith(r, <<"!">>)
    THEN [f |-> writelines(file, r \o NL), processed_rules |-> P \cup {r}]
    ELSE [f |-> file, processed_rules |-> P]

\* save_url_rule, line 51
url_of(l) == Strip(Remove(l, <<"u", "r", "l">>))

\* save_file_rule, line 61
file_name_of(l) == Strip(Remove(l, <<"f", "i", "l", "e">>))

\* variant of the loop body of save_url_rule: the line is cut at '$' before it
\* is checked against the exclusions
url_rule_arg_truncate_first(r, excl) ==
    LET idx == Find(r, <<"$">>, 0)
        cut == IF idx # -1 THEN SliceTo(r, idx) ELSE r
    IN  IF is_rule_not_exclusion(cut, excl) THEN <<cut>> ELSE <<>>

\* body of the loop of save_url_rule (lines 53-58): <<>> when write_rule is not
\* called, else <<the rule passed to write_rule>>
url_rule_arg(r, excl) ==
    IF is_rule_not_exclusion(r, excl)
    THEN IF Find(r, <<"$">>, 0) # -1
         THEN LET idx == Find(r, <<"$">>, 0) IN <<SliceTo(r, idx)>>
         ELSE <<r>>
    ELSE <<>>

\* variant of the loop body of save_file_rule: only a final '\n' is removed
file_rule_arg_newline_only(r) ==
    IF r # <<>> /\ r[Len(r)] = "\n" THEN <<SliceTo(r, Len(r) - 1)>>
    ELSE <<r>>

\* body of the loop of save_file_rule (line 64): the rule passed to write_rule
file_rule_arg(r) == <<RStrip(r)>>

(***************************************************************************)
(* The inputs of a run: filter.template, exclusions.txt, the remote        *)
(* contents and the local files.                                           *)
(***************************************************************************)
CommentLines ==
    { <<"!", "c", "\n">>,
      <<"!", "c">> \o Placeholder \o <<"x", "\n">>,
      <<"!">> \o Placeholder \o Placeholder \o <<"\n">> }

UrlLines == { <<"u", "r", "l", " ", "u", "\n">> }

FileLines == { <<"f", "i", "l", "e", " ", "f", "\n">> }

OtherLines == { <<" ", "u", "r", "l", " ", "u", "\n">>, <<"a", ".", "b">> }

TemplateLines == CommentLines \cup UrlLines \cup FileLines \cup OtherLines

\* what exclusions.txt may hold
ExclusionTexts == { <<>>, <<"!", "c", "\n", "\n", "d">> }

\* a remote list: urlopen(url).read()
RemoteText ==
    <<"a", ".", "b", "\n", "a", ".", "b", "$", "d", "\n", "d", ".", "a", "/", "\n",
      "!", "c", "\n">>

\* get_content(url), given what the server returns
get_content(text) == Split(text)

\* the lines a remote list is made of
RemoteRules == {get_content(RemoteText)[i] : i \in DOMAIN get_content(RemoteText)}

\* a local file
LocalText ==
    <<"a", ".", "b", " ", "\n", "a", ".", "b", "$", "d", "\n",
      "d", ".", "a", "/", "\r", "\n", "!", "c", "\n">>

\* the lines a local file is made of, as `for rule in rf` yields them
LocalRules == {ReadLines(LocalText)[i] : i \in DOMAIN ReadLines(LocalText)}

(***************************************************************************)
(* The run.  The lines of a source are drawn one per iteration of the loop *)
(* that handles them; a remote list has at least one line (split never     *)
(* returns an empty list), a local file may have none.                     *)
(***************************************************************************)
NoPure == fn = "none" /\ arg = <<>> /\ res = <<>> /\ verdict = FALSE

Init ==
    /\ exclusions \in {load_exclusions(t) : t \in ExclusionTexts}
    /\ processed_rules = {}
    /\ f = <<>>
    /\ pc = "main"
    /\ n = 0
    /\ eof = FALSE
    /\ line = <<>>
    /\ target = <<>>
    /\ k = 0
    /\ rule = <<>>
    /\ call = <<>>
    /\ src = <<>>
    /\ failedAt = 0
    /\ NoPure

\* `for line in tmpl` yields l
NextLine(l) ==
    /\ pc = "main"
    /\ ~eof
    /\ n < MaxTemplateLines
    /\ l \in TemplateLines
    /\ line' = l
    /\ n' = n + 1
    /\ eof' = (l[Len(l)] # "\n")

\* lines 70-71
Comment ==
    \E l \in TemplateLines, ts \in date_now :
        /\ NextLine(l)
        /\ StartsWith(l, <<"!">>)
        /\ f' = writelines(f, save_comment(l, ts))
        /\ src' = Append(src, [kind |-> "comment", dir |-> n + 1, idx |-> 0])
        /\ UNCHANGED <<exclusions, processed_rules, pc, target, k, rule, call, failedAt>>
        /\ UNCHANGED pureVars

\* a directive whose target is t enters its loop
Enter(t, loop) ==
    /\ target' = t
    /\ k' = 0
    /\ pc' = loop
    /\ UNCHANGED <<exclusions, processed_rules, f, rule, call, src, failedAt>>
    /\ UNCHANGED pureVars

\* variant of Raise: the exception is caught and the MAIN loop goes on
Raise_swallowed(t) ==
    /\ target' = t
    /\ failedAt' = n + 1
    /\ UNCHANGED <<exclusions, processed_rules, f, pc, k, rule, call, src>>
    /\ UNCHANGED pureVars

\* a directive whose target is t raises: nothing catches the exception
Raise(t) ==
    /\ target' = t
    /\ failedAt' = n + 1
    /\ pc' = "aborted"
    /\ UNCHANGED <<exclusions, processed_rules, f, k, rule, call, src>>
    /\ UNCHANGED pureVars

\* lines 72-73, 51-52: the fetch succeeds
UrlFetch ==
    \E l \in TemplateLines :
        /\ NextLine(l)
        /\ StartsWith(l, <<"u", "r", "l">>)
        /\ Enter(url_of(l), "url")

\* lines 72-73, 51-52, 27-28: urlopen or read raises
UrlFetchFail ==
    \E l \in TemplateLines :
        /\ NextLine(l)
        /\ StartsWith(l, <<"u", "r", "l">>)
        /\ Raise(url_of(l))

\* one source line r handled: a is <<>> or <<the rule passed to write_rule>>
RuleStep(r, a) ==
    LET w == IF a = <<>> THEN [f |-> f, processed_rules |-> processed_rules]
             ELSE write_rule(a[1], f, processed_rules)
    IN  /\ k < MaxSourceLines
        /\ rule' = r
        /\ call' = a
        /\ f' = w.f
        /\ processed_rules' = w.processed_rules
        /\ src' = IF Len(w.f) > Len(f)
                  THEN Append(src, [kind |-> pc, dir |-> n, idx |-> k + 1])
                  ELSE src
        /\ k' = k + 1
        /\ UNCHANGED <<exclusions, pc, n, eof, line, target, failedAt>>
        /\ UNCHANGED pureVars

\* the loop of a directive ends
LoopEnd ==
    /\ pc' = "main"
    /\ rule' = <<>>
    /\ call' = <<>>
    /\ UNCHANGED <<exclusions, processed_rules, f, n, eof, line, target, k, src,
                   failedAt>>
    /\ UNCHANGED pureVars

\* one iteration of the loop of save_url_rule (lines 52-58)
UrlRule ==
    \E r \in RemoteRules :
        /\ pc = "url"
        /\ RuleStep(r, url_rule_arg(r, exclusions))

\* the loop of save_url_rule ends
UrlDone ==
    /\ pc = "url"
    /\ k >= 1
    /\ LoopEnd

\* lines 74-75, 61-62: the file opens
FileOpen ==
    \E l \in TemplateLines :
        /\ NextLine(l)
        /\ StartsWith(l, <<"f", "i", "l", "e">>)
        /\ Enter(file_name_of(l), "file")

\* lines 74-75, 61-62: open raises
FileOpenFail ==
    \E l \in TemplateLines :
        /\ NextLine(l)
        /\ StartsWith(l, <<"f", "i", "l", "e">>)
        /\ Raise(file_name_of(l))

\* one iteration of the loop of save_file_rule (lines 63-64)
FileRule ==
    \E r \in LocalRules :
        /\ pc = "file"
        /\ RuleStep(r, file_rule_arg(r))

\* the loop of save_file_rule ends
FileDone ==
    /\ pc = "file"
    /\ LoopEnd

\* lines 69-75 for a line with none of the three prefixes
Ignore ==
    \E l \in TemplateLines :
        /\ NextLine(l)
        /\ ~StartsWith(l, <<"!">>)
        /\ ~StartsWith(l, <<"u", "r", "l">>)
        /\ ~StartsWith(l, <<"f", "i", "l", "e">>)
        /\ UNCHANGED <<exclusions, processed_rules, f, pc, target, k, rule, call, src,
                       failedAt>>
        /\ UNCHANGED pureVars

\* line 76: the template is exhausted, sys.exit(0)
Exit ==
    /\ pc = "main"
    /\ pc' = "done"
    /\ UNCHANGED <<exclusions, processed_rules, f, n, eof, line, target, k, rule, call,
                   src, failedAt>>
    /\ UNCHANGED pureVars

Next ==
    \/ Comment
    \/ UrlFetch
    \/ UrlFetchFail
    \/ UrlRule
    \/ UrlDone
    \/ FileOpen
    \/ FileOpenFail
    \/ FileRule
    \/ FileDone
    \/ Ignore
    \/ Exit

Spec == Init /\ [][Next]_vars

(***************************************************************************)
(* The pure functions applied to bounded inputs: is_domain_rule to every   *)
(* string over RuleAlphabet of at most MaxRuleLen characters, and the      *)
(* target of a url / file directive for every line made of the prefix and  *)
(* at most MaxPieces pieces.                                               *)
(***************************************************************************)
RuleAlphabet == {"a", ".", "/", "?"}

Rules == SeqsOf(RuleAlphabet, 0, MaxRuleLen)

Pieces ==
    { <<" ">>, <<"h">>, <<"/">>, <<"u", "r", "l">>, <<"f", "i", "l", "e">> }

DirectiveLines(prefix) ==
    {prefix \o Concat(ps) \o NL : ps \in SeqsOf(Pieces, 0, MaxPieces)}

InitPure ==
    /\ exclusions = <<>>
    /\ processed_rules = {}
    /\ f = <<>>
    /\ pc = "pure"
    /\ n = 0
    /\ eof = FALSE
    /\ line = <<>>
    /\ target = <<>>
    /\ k = 0
    /\ rule = <<>>
    /\ call = <<>>
    /\ src = <<>>
    /\ failedAt = 0
    /\ NoPure

ApplyIsDomainRule ==
    \E r \in Rules :
        /\ pc = "pure"
        /\ fn = "none"
        /\ fn' = "is_domain_rule"
        /\ arg' = r
        /\ verdict' = is_domain_rule(r)
        /\ res' = <<>>
        /\ UNCHANGED runVars

ApplyUrlOf ==
    \E l \in DirectiveLines(<<"u", "r", "l">>) :
        /\ pc = "pure"
        /\ fn = "none"
        /\ fn' = "url_of"
        /\ arg' = l
        /\ res' = url_of(l)
        /\ verdict' = FALSE
        /\ UNCHANGED runVars

ApplyFileNameOf ==
    \E l \in DirectiveLines(<<"f", "i", "l", "e">>) :
        /\ pc = "pure"
        /\ fn = "none"
        /\ fn' = "file_name_of"
        /\ arg' = l
        /\ res' = file_name_of(l)
        /\ verdict' = FALSE
        /\ UNCHANGED runVars

NextPure ==
    \/ ApplyIsDomainRule
    \/ ApplyUrlOf
    \/ ApplyFileNameOf

SpecPure == InitPure /\ [][NextPure]_vars

(***************************************************************************)
(* Vocabulary of the properties, stated without the helpers of the model.  *)
(***************************************************************************)
\* sub occurs in s as a literal substring
Occurs(sub, s) ==
    \E i \in 1..(Len(s) - Len(sub) + 1) : SubSeq(s, i, i + Len(sub) - 1) = sub

\* the first occurrence of sub in s starts at position i (1-based)
FirstAt(sub, s, i) ==
    /\ i \in 1..(Len(s) - Len(sub) + 1)
    /\ SubSeq(s, i, i + Len(sub) - 1) = sub
    /\ \A j \in 1..(i - 1) : SubSeq(s, j, j + Len(sub) - 1) # sub

IsPrefix(a, b) == Len(a) <= Len(b) /\ SubSeq(b, 1, Len(a)) = a

IsComment(s) == s # <<>> /\ s[1] = "!"

\* some non-empty entry of the exclusion list occurs in s
Excluded(s) ==
    \E i \in DOMAIN exclusions : exclusions[i] # <<>> /\ Occurs(exclusions[i], s)

\* s without its longest suffix made of characters of C
WithoutTrailing(s, C) ==
    LET keep == {m \in 0..Len(s) : \A j \in (m + 1)..Len(s) : s[j] \in C}
    IN  SubSeq(s, 1, CHOOSE m \in keep : \A m2 \in keep : m <= m2)

\* s without its longest prefix and its longest suffix made of characters of C
WithoutSurrounding(s, C) ==
    LET t == WithoutTrailing(s, C)
        drop == {m \in 0..Len(t) : \A j \in 1..m : t[j] \in C}
    IN  SubSeq(t, 1 + (CHOOSE m \in drop : \A m2 \in drop : m >= m2), Len(t))

LineTerminators == {"\n", "\r"}

\* origin a is read before origin b
ReadBefore(a, b) == a.dir < b.dir \/ (a.dir = b.dir /\ a.idx < b.idx)

(***************************************************************************)
(* C1: write_rule(R) with processed-rules set P appends R followed by a    *)
(* newline to the output and adds R to P if and only if (is_domain_rule(R) *)
(* and R is not in P) or R starts with '!'; otherwise the output and P are *)
(* left unchanged.                                                         *)
(***************************************************************************)
C1_WriteRuleGate ==
    [][(call' # <<>> /\ k' = k + 1) =>
         LET R == call'[1] IN
         IF (is_domain_rule(R) /\ R \notin processed_rules) \/ IsComment(R)
         THEN f' = Append(f, R \o NL) /\ processed_rules' = processed_rules \cup {R}
         ELSE f' = f /\ processed_rules' = processed_rules]_vars

\* write_rule was just called with a valid rule already in P: nothing was written
C1_Witness ==
    /\ call # <<>>
    /\ is_domain_rule(call[1])
    /\ k = 2
    /\ f = <<call[1] \o NL>>
    /\ src[1].idx = 1
    /\ src[1].dir = n

(***************************************************************************)
(* C2: every non-comment rule string occurs at most once among the output  *)
(* lines, whichever sources produced it and however often.                 *)
(***************************************************************************)
C2_NoDuplicateRule ==
    \A i, j \in DOMAIN f : (i < j /\ ~IsComment(f[i])) => f[i] # f[j]

\* a rule written by a url directive was then produced by a file directive
C2_Witness ==
    /\ pc = "file"
    /\ call # <<>>
    /\ f = <<call[1] \o NL>>
    /\ src[1].kind = "url"
    /\ rule # call[1] \o NL

(***************************************************************************)
(* C3: is_domain_rule(R) is false when R has no '.', true when neither '?'  *)
(* nor '/' occurs at or after the first '.', and otherwise true exactly    *)
(* when the substring from the first of those '/' and '?' to the end of R  *)
(* has length at most 2.                                                   *)
(***************************************************************************)
C3_DomainRuleCutAtFirst ==
    fn = "is_domain_rule" =>
        verdict = IF ~Occurs(<<".">>, arg) THEN FALSE
              ELSE LET p == CHOOSE i \in 1..Len(arg) : FirstAt(<<".">>, arg, i)
                       cuts == {i \in p..Len(arg) : arg[i] \in {"/", "?"}}
                   IN  IF cuts = {} THEN TRUE
                       ELSE \E c \in cuts :
                               /\ \A c2 \in cuts : c <= c2
                               /\ Len(arg) - c + 1 <= 2

(***************************************************************************)
(* C4: no rule line in the output, whether it came from a url directive or *)
(* a file directive, contains a non-empty exclusion entry as a substring.  *)
(***************************************************************************)
C4_NoExcludedRuleAnySource ==
    \A i \in DOMAIN f :
        src[i].kind \in {"url", "file"} => ~Excluded(SubSeq(f[i], 1, Len(f[i]) - 1))

\* C4 as amended: no line written by a url directive contains a non-empty
\* exclusion entry as a substring (lines of local files are not checked).
C4_NoExcludedRuleFromUrl ==
    \A i \in DOMAIN f :
        src[i].kind = "url" => ~Excluded(SubSeq(f[i], 1, Len(f[i]) - 1))

\* a valid remote rule holding an exclusion entry was handled and not written
C4_Witness ==
    /\ pc = "url"
    /\ k = 2
    /\ Excluded(rule)
    /\ is_domain_rule(rule)
    /\ Len(f) = 1
    /\ src[1].kind = "url"

(***************************************************************************)
(* C5: a line L of a remote source is passed to write_rule if and only if  *)
(* no non-empty exclusion entry occurs in the untruncated L; the string    *)
(* passed is L cut at its first '$' when it has one, otherwise L.          *)
(***************************************************************************)
C5_UrlLineFilter ==
    (pc = "url" /\ k >= 1) =>
        /\ (call # <<>>) <=> ~Excluded(rule)
        /\ call # <<>> =>
              IF Occurs(<<"$">>, rule)
              THEN \E i \in 1..Len(rule) :
                      FirstAt(<<"$">>, rule, i) /\ call[1] = SubSeq(rule, 1, i - 1)
              ELSE call[1] = rule

\* a remote line was rejected for a match inside its '$' suffix only, while the
\* exclusion list also holds an empty entry
C5_Witness ==
    /\ pc = "url"
    /\ k >= 1
    /\ call = <<>>
    /\ \E i \in 1..Len(rule) :
          /\ FirstAt(<<"$">>, rule, i)
          /\ ~Excluded(SubSeq(rule, 1, i - 1))
          /\ Excluded(rule)
    /\ \E i \in DOMAIN exclusions : exclusions[i] = <<>>

(***************************************************************************)
(* C6: the output starts empty and is only ever extended at its end; the   *)
(* emitted lines stand in the order in which their directives stand in the *)
(* template and, within one directive, in the order of its source lines.   *)
(***************************************************************************)
C6_OutputOrder ==
    /\ f = <<>>
    /\ [][IsPrefix(f, f')]_vars
    /\ [](/\ Len(src) = Len(f)
          /\ \A i, j \in DOMAIN src : i < j <=> ReadBefore(src[i], src[j]))

\* three lines written: one by a first directive, two by a second one
C6_Witness ==
    /\ Len(f) = 3
    /\ src[1].dir < src[2].dir
    /\ src[2].dir = src[3].dir
    /\ src[2].idx < src[3].idx

(***************************************************************************)
(* C7: the URL fetched (the path opened) for a template line starting with *)
(* 'url' ('file') is the line without that leading prefix and without      *)
(* surrounding whitespace; every other character is preserved.             *)
(***************************************************************************)
C7_TargetIsLineWithoutPrefix ==
    /\ fn = "url_of" =>
          res = WithoutSurrounding(SubSeq(arg, 4, Len(arg)), Whitespace)
    /\ fn = "file_name_of" =>
          res = WithoutSurrounding(SubSeq(arg, 5, Len(arg)), Whitespace)

C9_FailFast ==
    /\ [](failedAt # 0 =>
            /\ pc = "aborted"
            /\ \A i \in DOMAIN src : src[i].dir < failedAt)
    /\ [][failedAt' # failedAt => (f' = f /\ processed_rules' = processed_rules)]_vars
    /\ [][pc = "aborted" => (f' = f /\ processed_rules' = processed_rules
                             /\ pc' = "aborted")]_vars

\* the second directive failed after the first one had written a rule
C9_Witness ==
    /\ pc = "aborted"
    /\ failedAt = 2
    /\ Len(f) >= 1
    /\ processed_rules # {}

(***************************************************************************)
(* C10: the string passed to write_rule for a line of a local file is that *)
(* line with only its trailing line terminators removed (trailing spaces   *)
(* and tabs stay), not truncated at '$' and not checked against the        *)
(* exclusion list.                                                         *)
(***************************************************************************)
C10_FileLineOnlyTerminatorsStripped ==
    (pc = "file" /\ k >= 1) => call = <<WithoutTrailing(rule, LineTerminators)>>

\* C10 as amended: the string passed to write_rule for a line of a local file
\* is that line with all its trailing whitespace removed (spaces and tabs as
\* well as line terminators), not truncated at '$' and not checked against the
\* exclusion list.
C10_FileLineTrailingWhitespaceStripped ==
    (pc = "file" /\ k >= 1) => call = <<WithoutTrailing(rule, Whitespace)>>

\* a local line ending in a space and a newline was passed without either, and
\* written
C10_Witness ==
    /\ pc = "file"
    /\ k >= 1
    /\ call # <<>>
    /\ rule = call[1] \o <<" ", "\n">>
    /\ f # <<>>
    /\ f[Len(f)] = call[1] \o NL

====
